---- MODULE Spec2Model ----
(***************************************************************************)
(* Prompt Prompter frontend: the client-side prompt quality scorer         *)
(* (analyzePromptQuality), the analysis pipeline (handleAnalyze,           *)
(* runAnalysis with its demo fallback) and the telemetry service           *)
(* (DatadogService).                                                       *)
(*                                                                         *)
(* A prompt is a sequence of atoms.  An atom is a run of letters (a word,  *)
(* kept whole), a single punctuation character, a digit, the code fence    *)
(* (three backticks, written "FENCE"), or a whitespace character.  No      *)
(* concatenation of two atoms of the alphabet spells a word of the         *)
(* stopword, technical-term or vague-word tables, so a token matches a     *)
(* table word exactly when it is that single atom.                         *)
(*                                                                         *)
(* Scores are exact rationals kept as integers: a 0..100 score s is kept   *)
(* as s (specificity, context, clarity, structure) or as 3*s (meaningful   *)
(* length), the weighted prompt quality q as 60*q, and a 0..1 accuracy a   *)
(* as 60000*a.                                                             *)
(***************************************************************************)
EXTENDS Integers, Sequences, FiniteSets, TLC

\* ------------------------------------------------------------------ bounds
\* longest free-form prompt (in atoms) of the scorer's input set
MaxLen == 3
\* largest number of repetitions of the unit of a long prompt
MaxRepeat == 15
\* number of handleAnalyze invocations that get as far as the backend request
MaxCalls == 1
\* number of analyses in a chain of remediations (an analysis, then the
\* analyses of the prompts that optimizations suggested)
MaxChain == 2
\* largest number of subscribed telemetry callbacks
MaxSubscribers == 1
\* largest number of words after the code fence and the list marker of a
\* structured prompt
MaxWords == 4
\* runs of the demo effect that are suspended at the same time
MaxPending == 2
\* crypto.randomUUID() calls (template ids and version ids) of a run
MaxUuids == 5
\* logs the telemetry service emits in a run of the buffer's specification
MaxLogs == 102

\* --------------------------------------------------------------- arithmetic
Min(a, b) == IF a < b THEN a ELSE b
Max(a, b) == IF a > b THEN a ELSE b

\* 60 * q for a prompt quality q on the 0..100 scale
QualityUnit == 6 * 10
\* 60000 * a for an accuracy a on the 0..1 scale
AccuracyUnit == QualityUnit * 1000

\* ------------------------------------------------------------------ prompts
Whitespace == {" ", "\n"}
Digits == {"1"}

IsSpace(a) == a \in Whitespace

\* String.prototype.toLowerCase, atom by atom
ToLowerCase(a) ==
  CASE a = "Python" -> "python"
    [] a = "Fix" -> "fix"
    [] a = "Optimized" -> "optimized"
    [] OTHER -> a

RECURSIVE Repeat(_, _)
Repeat(unit, k) == IF k = 0 THEN <<>> ELSE unit \o Repeat(unit, k - 1)

\* String.prototype.trim: strip leading and trailing whitespace
RECURSIVE TrimStart(_)
TrimStart(p) ==
  IF p = <<>> THEN <<>>
  ELSE IF IsSpace(Head(p)) THEN TrimStart(Tail(p)) ELSE p

RECURSIVE TrimEnd(_)
TrimEnd(p) ==
  IF p = <<>> THEN <<>>
  ELSE IF IsSpace(p[Len(p)]) THEN TrimEnd(SubSeq(p, 1, Len(p) - 1)) ELSE p

Trim(p) == TrimEnd(TrimStart(p))

\* -------------------------------------------------------------- the tables
STOPWORDS ==
  {"the", "a", "an", "and", "or", "but", "is", "are", "was", "were", "to",
   "for", "in", "on", "at", "with", "by", "please", "can", "you", "my", "me",
   "i", "this", "that"}

techTerms ==
  {"function", "class", "api", "json", "sql", "python", "react", "security",
   "latency", "optimize", "schema", "vulnerability", "asynchronous", "memory",
   "performance"}

\* a vague-word list without "fix"
vagueWordsNoFix == {"help", "thing", "do", "stuff", "something"}

vagueWords == {"fix", "help", "thing", "do", "stuff", "something"}

\* a token (a sequence of atoms) is the word w of a table
TokenIn(tok, table) == Len(tok) = 1 /\ tok[1] \in table

\* ------------------------------------------------------ analyzePromptQuality
\* prompt.toLowerCase().split(/\s+/).filter(w => w.length > 0):
\* the maximal runs of non-whitespace atoms, lowercased
\* a token starts at a non-whitespace atom that follows whitespace (or
\* nothing) and runs up to the next whitespace atom (or the end)
TokenStarts(p) ==
  {i \in 1..Len(p) : ~IsSpace(p[i]) /\ (i = 1 \/ IsSpace(p[i - 1]))}

TokenEnd(p, i) ==
  CHOOSE j \in i..Len(p) :
    /\ \A k \in i..j : ~IsSpace(p[k])
    /\ j = Len(p) \/ IsSpace(p[j + 1])

TokenAt(p, i) == [k \in 1..(TokenEnd(p, i) - i + 1) |-> ToLowerCase(p[i + k - 1])]

Words(p) ==
  LET starts == TokenStarts(p)
      Nth(n) == CHOOSE i \in starts : Cardinality({j \in starts : j <= i}) = n
  IN [n \in 1..Cardinality(starts) |-> TokenAt(p, Nth(n))]

\* words.filter(w => !STOPWORDS.has(w))
MeaningfulWords(p) ==
  LET NotStop(w) == ~TokenIn(w, STOPWORDS) IN SelectSeq(Words(p), NotStop)

\* 3 * lenScore, lenScore = Math.min(meaningfulWords.length / 30, 1) * 100
LenScore3(p) == Min(Len(MeaningfulWords(p)), 30) * 10

\* a specificity score without the cap of Math.min(..., 1)
SpecificityScoreUncapped(p) ==
  LET IsTech(w) == TokenIn(w, techTerms)
      m == MeaningfulWords(p)
  IN Len(SelectSeq(m, IsTech)) * 20 + Len(m) * 2

SpecificityScore(p) ==
  LET IsTech(w) == TokenIn(w, techTerms)
      m == MeaningfulWords(p)
  IN Min(Len(SelectSeq(m, IsTech)) * 20 + Len(m) * 2, 100)

Includes(p, a) == \E i \in 1..Len(p) : p[i] = a

ContextScore(p) ==
  IF \/ Includes(p, "FENCE")
     \/ Includes(p, "{")
     \/ Includes(p, "[")
     \/ \E i \in 1..Len(p) : p[i] \in Digits
  THEN 100 ELSE 20

\* a penalty applied once, however many vague words there are
ClarityScoreOnce(p) ==
  LET IsVague(w) == TokenIn(w, vagueWords)
  IN IF Len(SelectSeq(Words(p), IsVague)) > 0 THEN 85 ELSE 100

ClarityScore(p) ==
  LET IsVague(w) == TokenIn(w, vagueWords)
  IN Max(100 - Len(SelectSeq(Words(p), IsVague)) * 15, 0)

\* a structure score that looks at line breaks only
StructureScoreLineBreaks(p) ==
  LET IsNewline(a) == a = "\n"
  IN IF Len(SelectSeq(p, IsNewline)) >= 2 THEN 100 ELSE 30

StructureScore(p) ==
  LET IsNewline(a) == a = "\n"
  IN IF \/ Len(SelectSeq(p, IsNewline)) >= 2
        \/ \E i \in 1..(Len(p) - 1) : p[i] \in Digits /\ p[i + 1] = "."
        \/ \E i \in 1..Len(p) : p[i] \in {"-", "*"}
     THEN 100 ELSE 30

analyzePromptQuality(p) ==
  [specificity |-> SpecificityScore(p),
   meaningfulLength3 |-> LenScore3(p),
   context |-> ContextScore(p),
   clarity |-> ClarityScore(p),
   structure |-> StructureScore(p)]

NoQuality ==
  [specificity |-> 0, meaningfulLength3 |-> 0, context |-> 0, clarity |-> 0,
   structure |-> 0]

\* 60 * avgPromptQuality, the weighted sum 0.4/0.25/0.15/0.1/0.1 (uncapped)
avgPromptQuality(q) ==
  24 * q.specificity + 5 * q.meaningfulLength3 + 9 * q.context
    + 6 * q.clarity + 6 * q.structure

\* ---------------------------------------------------------------- constants
\* the default accuracy threshold, in percent
AccuracyThreshold == 80
\* the demo fallback's optimization threshold on avgPromptQuality
FallbackThreshold == 85
\* the cap of the fallback's accuracy_score, in percent
AccuracyCap == 98
\* the history keeps the newest 50 results
HistoryLimit == 50
\* the telemetry buffer keeps the newest 100 logs
LogLimit == 100
\* trackAnalysis: warn below 0.5 accuracy, hallucination log above 0.7
WarnBelow == 50
HallucinationAbove == 70

\* percent of the 0..1 scale, in accuracy units
Pct(n) == n * (AccuracyUnit \div 100)

\* a slice that keeps everything
TakeAll(s, n) == s

Take(s, n) == SubSeq(s, 1, Min(Len(s), n))

\* ------------------------------------------------------------------- inputs
\* The state holds a prompt as a handle [base, wraps]: one of the base texts
\* below, behind the prefixes that optimizations have put in front of it
\* (outermost first).  Text(h) is the prompt itself; it is what is trimmed
\* and scored.  Distinct handles have distinct texts.
LongUnit == <<"Python", " ", "1", "\n">>

BaseText(base) ==
  CASE base = "empty" -> <<>>
    [] base = "blank" -> <<" ", "\n">>
    [] base = "fix code" -> <<"fix", " ", "code">>
    [] base = "long" -> Repeat(LongUnit, MaxRepeat)
    [] base = "demo typing" -> <<"w">>
    [] base = "demo prompt" ->
         <<"write", " ", "a", " ", "python", " ", "function", " ", "to", " ",
           "find", " ", "the", " ", "maximum", " ", "in", " ", "a", " ", "list">>

\* "[Optimized] " of the demo fallback; the backend's rewrite (the spec says
\* only that it differs from the original)
WrapText(w) ==
  IF w = "demo" THEN <<"[", "Optimized", "]", " ">>
  ELSE <<"optimize", " ", "Python", " ", "function", "\n", "1", ".", " ">>

RECURSIVE TextOf(_)
TextOf(h) ==
  IF h.wraps = <<>> THEN BaseText(h.base)
  ELSE WrapText(Head(h.wraps)) \o TextOf([h EXCEPT !.wraps = Tail(@)])

Prompt(base) == [base |-> base, wraps |-> <<>>]

\* an optimization that hands the prompt back as it is
WrapIdentity(w, h) == h

Wrap(w, h) == [h EXCEPT !.wraps = <<w>> \o @]

\* every prompt the analyses of a run can put in the state; their texts, and
\* analyzePromptQuality of them, are tabulated once
Bases == {"empty", "blank", "fix code", "long", "demo typing", "demo prompt"}
Handles ==
  {[base |-> b, wraps |-> w] :
     b \in Bases, w \in UNION {[1..n -> {"demo", "backend"}] : n \in 0..Max(MaxCalls, MaxChain)}}

TextTable == [h \in Handles |-> TextOf(h)] @@ <<>>
Text(h) == TextTable[h]

EmptyPrompt == Prompt("empty")
BlankPrompt == Prompt("blank")
FixCode == Prompt("fix code")
LongPrompt == Prompt("long")
\* the prompt of the demo's second step, and what the typing loop has put in
\* the input buffer before its first delay
DemoPrompt == Prompt("demo prompt")
DemoTyping == Prompt("demo typing")

\* the scorer's inputs: every prompt of at most MaxLen atoms
QAtoms == {"fix", "code", "Python", "please", " ", "\n", "1", ".", "-", "{"}
QPrompts == UNION {[1..n -> QAtoms] : n \in 0..MaxLen}

\* the filler words of the scoring guide
Fillers == {"please", "my", "thanks"}

\* tok as one more token of p, after p's first i atoms
InsertToken(p, i, tok) ==
  SubSeq(p, 1, i) \o <<" ", tok, " ">> \o SubSeq(p, i + 1, Len(p))

\* the places of p between two tokens, before the first and after the last
\* (the places that are not inside a token)
TokenGaps(p) ==
  {i \in 0..Len(p) : i = 0 \/ i = Len(p) \/ IsSpace(p[i]) \/ IsSpace(p[i + 1])}

\* the scorer's inputs when only scores are compared with their formulas:
\* short prompts over a larger alphabet (both brackets and braces, both
\* bullet characters, the code fence, a comma), prompts of one repeated
\* word, and structured prompts: a code fence and a list marker "1." (in one
\* token, in two, or on two lines), then words
ScoreAtoms == QAtoms \cup {"*", "}", "[", "]", "FENCE", ","}
ShortPrompts == UNION {[1..n -> ScoreAtoms] : n \in 0..MaxLen}

RepeatedPrompts ==
  {Repeat(<<w, " ">>, k) : w \in {"fix", "Fix", "Python", "please"}, k \in 0..MaxRepeat}

ScenarioHeads ==
  {<<"FENCE", "1", ".">>, <<"FENCE", " ", "1", ".">>, <<"FENCE", "\n", "1", ".">>}
ScenarioWords == {"api", "json", "Python", "fix", "code", "please"}

RECURSIVE Spaced(_)
Spaced(ws) == IF ws = <<>> THEN <<>> ELSE <<" ", Head(ws)>> \o Spaced(Tail(ws))

ScenarioPrompts ==
  {h \o Spaced(ws) :
     h \in ScenarioHeads, ws \in UNION {[1..n -> ScenarioWords] : n \in 3..MaxWords}}

ScorePrompts == ShortPrompts \cup RepeatedPrompts \cup ScenarioPrompts

\* what the user (or the demo's typing loop) can put in the input buffer
InputPrompts == {BlankPrompt, FixCode, LongPrompt}

\* subscribers of the telemetry service: the Metrics tab's callback, and a
\* callback that throws
Callbacks == {"metricsTab", "faulty"}

\* ------------------------------------------------------------------ records
NoOptimization ==
  [present |-> FALSE, optimized_prompt |-> EmptyPrompt,
   expected_score_improvement |-> 0]

NoMetrics ==
  [accuracy_score |-> 0, semantic_similarity |-> 0, hallucination_score |-> 0]

NoResult ==
  [id |-> 0, original_prompt |-> EmptyPrompt, llm_response |-> "", metrics |-> NoMetrics,
   quality_dimensions |-> NoQuality, optimization |-> NoOptimization,
   status |-> "none", error |-> ""]

NoResponse ==
  [ok |-> FALSE, status |-> "none", error |-> "", llm_response |-> "",
   metrics |-> NoMetrics, optimization |-> NoOptimization,
   original_prompt |-> EmptyPrompt]

QualityTable == [h \in Handles |-> analyzePromptQuality(Text(h))] @@ <<>>
Quality(prompt) == QualityTable[prompt]

\* ---------------------------------------------------- the backend (the spec)
\* QualityScorer: the weighted sum capped at 98 after weighting (60 * score)
PromptQualityScore(q) == Min(avgPromptQuality(q), AccuracyCap * QualityUnit)

\* 1000 * response_quality, for similarity and hallucination in percent
ResponseQuality(sim, hall) == 7 * sim + 3 * (100 - hall)

\* AccuracyAggregator: the 90/10 blend, in accuracy units
BlendedAccuracy(q, sim, hall) ==
  9 * PromptQualityScore(q) + 6 * ResponseQuality(sim, hall)

\* ResponseEvaluator's outcomes: the neutral defaults and a perfect
\* evaluation (similarity, hallucination in percent)
Evaluations ==
  {[sim |-> 0, hall |-> 100], [sim |-> 100, hall |-> 0]}

\* the rewrite capability's answer: a prompt that differs from the original
Rewrite(prompt) == Wrap("backend", prompt)

\* RemediationController: one generation call, then at most one rewrite call
\* gen: "ok" | "error" (reported in the body) | "http" (a non-OK response)
BackendAnalyze(prompt, auto, gen, e, rewriteOk) ==
  LET q == Quality(prompt)
      acc == BlendedAccuracy(q, e.sim, e.hall)
      wantsRewrite == auto /\ acc < Pct(AccuracyThreshold)
  IN IF gen = "ok"
     THEN [rewrites |-> IF wantsRewrite THEN 1 ELSE 0,
           response |->
             [ok |-> TRUE, status |-> "success", error |-> "",
              llm_response |-> "llm text",
              metrics |-> [accuracy_score |-> acc, semantic_similarity |-> e.sim,
                           hallucination_score |-> e.hall],
              optimization |->
                IF wantsRewrite /\ rewriteOk
                THEN [present |-> TRUE, optimized_prompt |-> Rewrite(prompt),
                      expected_score_improvement |-> 15]
                ELSE NoOptimization,
              original_prompt |-> prompt]]
     ELSE [rewrites |-> 0,
           response |->
             [ok |-> gen = "error", status |-> "error", error |-> "UpstreamTimeout",
              llm_response |-> "", metrics |-> NoMetrics,
              optimization |-> NoOptimization, original_prompt |-> prompt]]

\* ------------------------------------------------------------- runAnalysis
\* a conversion that maps the optimization without testing for its presence
BackendResultAlwaysOptimization(id, prompt, r) ==
  [id |-> id,
   original_prompt |-> r.original_prompt,
   llm_response |-> r.llm_response,
   metrics |-> [accuracy_score |-> r.metrics.accuracy_score,
                semantic_similarity |-> r.metrics.semantic_similarity,
                hallucination_score |-> r.metrics.hallucination_score],
   quality_dimensions |-> Quality(prompt),
   optimization |->
     [present |-> TRUE,
      optimized_prompt |-> r.optimization.optimized_prompt,
      expected_score_improvement |-> r.optimization.expected_score_improvement],
   status |-> r.status,
   error |-> r.error]

\* a conversion that reports a response without optimization as an error
BackendResultErrorWithoutOptimization(id, prompt, r) ==
  [id |-> id,
   original_prompt |-> r.original_prompt,
   llm_response |-> r.llm_response,
   metrics |-> [accuracy_score |-> r.metrics.accuracy_score,
                semantic_similarity |-> r.metrics.semantic_similarity,
                hallucination_score |-> r.metrics.hallucination_score],
   quality_dimensions |-> Quality(prompt),
   optimization |->
     IF r.optimization.present
     THEN [present |-> TRUE,
           optimized_prompt |-> r.optimization.optimized_prompt,
           expected_score_improvement |-> r.optimization.expected_score_improvement]
     ELSE NoOptimization,
   status |-> IF r.optimization.present THEN r.status ELSE "error",
   error |-> r.error]

\* the try path: the API response converted to an AnalysisResult
BackendResult(id, prompt, r) ==
  [id |-> id,
   original_prompt |-> r.original_prompt,
   llm_response |-> r.llm_response,
   metrics |-> [accuracy_score |-> r.metrics.accuracy_score,
                semantic_similarity |-> r.metrics.semantic_similarity,
                hallucination_score |-> r.metrics.hallucination_score],
   quality_dimensions |-> Quality(prompt),
   optimization |->
     IF r.optimization.present
     THEN [present |-> TRUE,
           optimized_prompt |-> r.optimization.optimized_prompt,
           expected_score_improvement |-> r.optimization.expected_score_improvement]
     ELSE NoOptimization,
   status |-> r.status,
   error |-> r.error]

\* the score left on the 0..100 scale: Math.min(avgPromptQuality, 98)
FallbackAccuracyUnscaled(avg) == Min(1000 * avg, 100 * Pct(AccuracyCap))

\* accuracy_score of the fallback: Math.min(avgPromptQuality / 100, 0.98)
FallbackAccuracy(avg) == Min(10 * avg, Pct(AccuracyCap))

\* the fallback's gate: avgPromptQuality < 85 (autoOptimize is not read)
FallbackOptimizes(avg, auto) == avg < FallbackThreshold * QualityUnit

\* a failed request reported as an error (no demo result)
FallbackStatusError == "error"

\* status of the catch path's result
FallbackStatus == "success"

\* the catch path: the demo result built from the client-side analysis
FallbackResult(id, prompt, auto) ==
  LET quality == Quality(prompt)
      avg == avgPromptQuality(quality)
  IN [id |-> id,
      original_prompt |-> prompt,
      llm_response |-> "[Demo Mode]",
      metrics |-> [accuracy_score |-> FallbackAccuracy(avg),
                   semantic_similarity |-> 75,
                   hallucination_score |-> 10],
      quality_dimensions |-> quality,
      optimization |->
        IF FallbackOptimizes(avg, auto)
        THEN [present |-> TRUE,
              optimized_prompt |-> Wrap("demo", prompt),
              expected_score_improvement |-> 15]
        ELSE NoOptimization,
      status |-> FallbackStatus,
      error |-> ""]

\* ---------------------------------------------------------- DatadogService
\* this.subscribers.forEach(cb => cb(log)): callbacks run in order; the one
\* that throws ends the loop
\* TRUE when the loop ended by a throw
RECURSIVE Notify(_, _, _)
Notify(subs, i, log) ==
  IF i > Len(subs) THEN FALSE
  ELSE IF subs[i] = "faulty" THEN TRUE ELSE Notify(subs, i + 1, log)

\* the callbacks that forEach calls with the log: all of them, or those up to
\* the first one that throws
Called(subs) ==
  {subs[i] : i \in {j \in 1..Len(subs) : \A k \in 1..(j - 1) : subs[k] # "faulty"}}

\* an emitLog that puts the log at the end of the buffer
emitLogAtEnd(st, subs, status, message, id) ==
  IF st.threw THEN st
  ELSE LET log == [timestamp |-> st.clock + 1, status |-> status,
                   message |-> message, id |-> id]
       IN [logs |-> Take(st.logs \o <<log>>, LogLimit), clock |-> st.clock + 1,
           threw |-> Notify(subs, 1, log),
           received |-> [cb \in DOMAIN st.received |->
                           IF cb \in Called(subs)
                           THEN [count |-> st.received[cb].count + 1,
                                 last |-> log.timestamp]
                           ELSE st.received[cb]]]

\* st = [logs, clock, threw, received]; a log's timestamp is the logical
\* clock of the service (the number of logs emitted so far); nothing runs
\* after a throw
emitLog(st, subs, status, message, id) ==
  IF st.threw THEN st
  ELSE LET log == [timestamp |-> st.clock + 1, status |-> status,
                   message |-> message, id |-> id]
       IN [logs |-> Take(<<log>> \o st.logs, LogLimit), clock |-> st.clock + 1,
           threw |-> Notify(subs, 1, log),
           received |-> [cb \in DOMAIN st.received |->
                           IF cb \in Called(subs)
                           THEN [count |-> st.received[cb].count + 1,
                                 last |-> log.timestamp]
                           ELSE st.received[cb]]]

trackAnalysis(st, subs, result) ==
  LET first == emitLog(st, subs,
                 IF result.metrics.accuracy_score < Pct(WarnBelow)
                 THEN "warn" ELSE "info",
                 "Prompt analysis complete", result.id)
  IN IF result.metrics.hallucination_score > HallucinationAbove
     THEN emitLog(first, subs, "warn", "High hallucination detected", 0)
     ELSE first

\* -------------------------------------------------------------------- state
VARIABLES
  inputPrompt,    \* App state: the input buffer
  autoOptimize,   \* App state: the auto-optimize toggle
  isAnalyzing,    \* App state: the analyzing flag
  currentResult,  \* App state: the displayed result (NoResult for null)
  history,        \* App state: the history list, newest first
  storedHistory,  \* localStorage 'prompt_prompter_history'
  calls,          \* the handleAnalyze invocations that reached runAnalysis
  callLimit,      \* how many of them a run explores (never changes)
  lastInvoke,     \* what became of the latest handleAnalyze invocation:
                  \* "none" | "rejected" | "started"
  logs,           \* DatadogService.logs
  clock,          \* number of logs emitted so far
  subscribers,    \* DatadogService.subscribers
  qPc,            \* the scorer's harness: "off" | "input" | "inserted" |
                  \* "scored" | "scoredBoth"
  qPrompt,        \* a prompt given to analyzePromptQuality
  qVariant,       \* the same prompt with a filler token inserted
  qDims,          \* analyzePromptQuality(qPrompt)
  qVariantDims,   \* analyzePromptQuality(qVariant)
  legacyLoading,  \* legacy App state: the loading flag
  legacyCalls,    \* legacy App: the handleAnalyze invocations past validation
  legacyResult,   \* legacy App state: the displayed result
  legacyHistory,  \* legacy App state: the history list, newest first
  received,       \* for each telemetry callback: how many logs it was called
                  \* with, and the timestamp of the last one
  syncing,        \* syncMetrics calls that are waiting for their delay
  demoState,      \* App state: {isActive, isAuto, step} of the demo tour
  demoPending,    \* the demo effect's runs that are suspended: typing,
                  \* awaiting handleAnalyze, or waiting for the auto timer
  templates,      \* App state: the prompt templates, newest first
  storedTemplates,   \* localStorage 'prompt_prompter_templates'
  templateManager,   \* TemplateManager state: selectedTemplate, the edit
                     \* flags and the edited content and description
  uuids           \* crypto.randomUUID() calls made for templates so far

appVars ==
  <<inputPrompt, autoOptimize, isAnalyzing, currentResult, history,
    storedHistory, calls, callLimit, lastInvoke>>
datadogVars == <<logs, clock, subscribers, received, syncing>>
qVars == <<qPc, qPrompt, qVariant, qDims, qVariantDims>>
legacyVars == <<legacyLoading, legacyCalls, legacyResult, legacyHistory>>
demoVars == <<demoState, demoPending>>
templateVars == <<templates, storedTemplates, templateManager, uuids>>
vars == <<appVars, datadogVars, qVars, legacyVars, demoVars, templateVars>>

\* one handleAnalyze invocation past its validation
\*   pc: "fetching" (request sent), "responded" (the backend has answered),
\*       "fulfilled" / "rejected" (handleAnalyze's promise settled)
\*   autoOptimize, history: the values the invocation's closure captured
\*   requests, rewrites, scored: requests sent to the backend, rewrite calls
\*       the backend made for them, results runAnalysis built
\*   rewriteOk: the backend's rewrite call succeeded
\*   path: "backend" (the try block returned) | "fallback" (the catch block)
\*   avg: avgPromptQuality of the catch block
NewCall(prompt) ==
  [pc |-> "fetching", prompt |-> prompt, autoOptimize |-> autoOptimize,
   history |-> history, requests |-> 1, rewrites |-> 0, scored |-> 0,
   rewriteOk |-> FALSE, response |-> NoResponse, path |-> "none", avg |-> 0,
   result |-> NoResult]

AppInit ==
  /\ inputPrompt = EmptyPrompt
  /\ autoOptimize = TRUE
  /\ isAnalyzing = FALSE
  /\ currentResult = NoResult
  /\ history = <<>>
  /\ storedHistory = <<>>
  /\ calls = <<>>
  /\ lastInvoke = "none"

\* new DatadogService(): the constructor emits the initial heartbeat
DatadogInit ==
  /\ logs = <<[timestamp |-> 1, status |-> "info",
               message |-> "Datadog Browser SDK initialized", id |-> 0]>>
  /\ clock = 1
  /\ subscribers = <<>>
  /\ received = [cb \in Callbacks |-> [count |-> 0, last |-> 0]]
  /\ syncing = 0

QOff ==
  /\ qPc = "off"
  /\ qPrompt = <<>>
  /\ qVariant = <<>>
  /\ qDims = NoQuality
  /\ qVariantDims = NoQuality

\* the body of the legacy backend's answer: scores are in thousandths
\* (accuracy_score 0.854 is 854)
NoLegacyData ==
  [accuracy_score |-> 0,
   optimization |-> [present |-> FALSE, expected_score_improvement |-> 0]]

LegacyScores == {0, 4, 6, 500, 854, 996, 1000}
LegacyImprovements == {0, 4, 150, 1000}
LegacyData ==
  {[accuracy_score |-> a,
    optimization |-> [present |-> FALSE, expected_score_improvement |-> 0]] :
     a \in LegacyScores}
  \cup
  {[accuracy_score |-> a,
    optimization |-> [present |-> TRUE, expected_score_improvement |-> e]] :
     a \in LegacyScores, e \in LegacyImprovements}

\* an answer without an optimization
PlainLegacyData ==
  [accuracy_score |-> 854,
   optimization |-> [present |-> FALSE, expected_score_improvement |-> 0]]

\* Math.round(x * 100) of a score x given in thousandths
Round100(x) == (x + 5) \div 10

\* the legacy AnalysisResult (null before the first analysis); scores are
\* integers 0..100, fields that are undefined are marked in "defined"
NoLegacyResult ==
  [id |-> 0, timestamp |-> 0, confidenceScore |-> 0, originalScore |-> 0,
   expectedImprovement |-> 0, optimizedPrompt |-> EmptyPrompt, defined |-> {},
   autoOptimized |-> FALSE, originalPrompt |-> EmptyPrompt]

\* a mapping that adds the expected improvement without the cap at 100
legacyAnalyzePromptUncapped(id, now, prompt, data) ==
  LET optimization == data.optimization
      originalScore == Round100(data.accuracy_score)
      expectedImprovement ==
        IF optimization.present THEN Round100(optimization.expected_score_improvement)
        ELSE 0
      newScore == originalScore + expectedImprovement
  IN [id |-> id, timestamp |-> now,
      confidenceScore |-> IF optimization.present THEN newScore ELSE originalScore,
      originalScore |-> IF optimization.present THEN originalScore ELSE 0,
      expectedImprovement |-> IF optimization.present THEN expectedImprovement ELSE 0,
      optimizedPrompt |-> IF optimization.present THEN Wrap("backend", prompt)
                          ELSE EmptyPrompt,
      defined |-> IF optimization.present
                  THEN {"originalScore", "expectedImprovement", "optimizedPrompt"}
                  ELSE {},
      autoOptimized |-> optimization.present,
      originalPrompt |-> prompt]

\* analyzePrompt of the legacy geminiService: the mapping of the response
\* body to the AnalysisResult (now: Date.now(), as the number of results
\* mapped so far plus one)
legacyAnalyzePrompt(id, now, prompt, data) ==
  LET optimization == data.optimization
      originalScore == Round100(data.accuracy_score)
      expectedImprovement ==
        IF optimization.present THEN Round100(optimization.expected_score_improvement)
        ELSE 0
      newScore == Min(100, originalScore + expectedImprovement)
  IN [id |-> id, timestamp |-> now,
      confidenceScore |-> IF optimization.present THEN newScore ELSE originalScore,
      originalScore |-> IF optimization.present THEN originalScore ELSE 0,
      expectedImprovement |-> IF optimization.present THEN expectedImprovement ELSE 0,
      optimizedPrompt |-> IF optimization.present THEN Wrap("backend", prompt)
                          ELSE EmptyPrompt,
      defined |-> IF optimization.present
                  THEN {"originalScore", "expectedImprovement", "optimizedPrompt"}
                  ELSE {},
      autoOptimized |-> optimization.present,
      originalPrompt |-> prompt]

\* no template selected (null)
NoTemplate == [id |-> 0, name |-> "", versions |-> <<>>]

\* the legacy App after mount: useState(false) for loading
LegacyInit ==
  /\ legacyLoading = FALSE
  /\ legacyCalls = <<>>
  /\ legacyResult = NoLegacyResult
  /\ legacyHistory = <<>>

\* the demo tour is off; nothing of the demo effect is suspended
DemoInit ==
  /\ demoState = [isActive |-> FALSE, isAuto |-> FALSE, step |-> 0]
  /\ demoPending = <<>>

\* no template yet; TemplateManager's useState defaults
TemplateInit ==
  /\ templates = <<>>
  /\ storedTemplates = <<>>
  /\ templateManager = [selectedTemplate |-> NoTemplate, isEditing |-> FALSE,
                        editedContent |-> EmptyPrompt, editedDescription |-> "",
                        lastAction |-> [kind |-> "none", version |-> 0]]
  /\ uuids = 0

Init == AppInit /\ DatadogInit /\ QOff /\ LegacyInit /\ DemoInit /\ TemplateInit /\ callLimit = MaxCalls

\* ------------------------------------------------------------ handleAnalyze
\* promptOverride || inputPrompt (no override, like the empty string, is falsy)
PromptToUse(promptOverride) ==
  IF Text(promptOverride) # <<>> THEN promptOverride ELSE inputPrompt

\* the validation without the trim: if (!promptToUse) return;
IsRejectedNoTrim(promptToUse) == Text(promptToUse) = <<>>

\* if (!promptToUse.trim()) return;
IsRejected(promptToUse) == Trim(Text(promptToUse)) = <<>>

\* handleAnalyze up to its await: validation, setIsAnalyzing(true), and the
\* request runAnalysis sends through apiAnalyze
handleAnalyze(promptOverride) ==
  LET promptToUse == PromptToUse(promptOverride)
  IN IF IsRejected(promptToUse)
     THEN /\ lastInvoke' = "rejected"
          /\ UNCHANGED <<isAnalyzing, calls>>
     ELSE /\ Len(calls) < callLimit
          /\ lastInvoke' = "started"
          /\ isAnalyzing' = TRUE
          /\ calls' = Append(calls, NewCall(promptToUse))

\* a handleAnalyze that clears the analyzing flag only next to setCurrentResult
ResumeSuccessOnly(c, settled, result) ==
  /\ IF result.status = "success"
     THEN LET newHistory == Take(<<result>> \o calls[c].history, HistoryLimit)
              t == trackAnalysis([logs |-> logs, clock |-> clock, threw |-> FALSE,
                                  received |-> received],
                                 subscribers, result)
          IN /\ isAnalyzing' = FALSE
             /\ currentResult' = result
             /\ history' = newHistory
             /\ storedHistory' = newHistory
             /\ logs' = t.logs
             /\ clock' = t.clock
             /\ received' = t.received
             /\ calls' = [calls EXCEPT ![c] =
                            [settled EXCEPT !.pc = IF t.threw THEN "rejected"
                                                   ELSE "fulfilled"]]
     ELSE /\ calls' = [calls EXCEPT ![c] = [settled EXCEPT !.pc = "fulfilled"]]
          /\ UNCHANGED <<isAnalyzing, currentResult, history, storedHistory, logs,
                         clock, received>>
  /\ UNCHANGED <<inputPrompt, autoOptimize, lastInvoke, subscribers, syncing,
                 callLimit, qVars, legacyVars, demoVars, templateVars>>

\* a handleAnalyze that stores the result whatever its status
ResumeAnyStatus(c, settled, result) ==
  /\ isAnalyzing' = FALSE
  /\ LET newHistory == Take(<<result>> \o calls[c].history, HistoryLimit)
         t == trackAnalysis([logs |-> logs, clock |-> clock, threw |-> FALSE,
                             received |-> received],
                            subscribers, result)
     IN /\ currentResult' = result
        /\ history' = newHistory
        /\ storedHistory' = newHistory
        /\ logs' = t.logs
        /\ clock' = t.clock
        /\ received' = t.received
        /\ calls' = [calls EXCEPT ![c] =
                       [settled EXCEPT !.pc = IF t.threw THEN "rejected"
                                              ELSE "fulfilled"]]
  /\ UNCHANGED <<inputPrompt, autoOptimize, lastInvoke, subscribers, syncing,
                 callLimit, qVars, legacyVars, demoVars, templateVars>>

\* handleAnalyze after its await, for call c and the result runAnalysis returned
Resume(c, settled, result) ==
  /\ isAnalyzing' = FALSE
  /\ IF result.status = "success"
     THEN LET newHistory == Take(<<result>> \o calls[c].history, HistoryLimit)
              t == trackAnalysis([logs |-> logs, clock |-> clock, threw |-> FALSE,
                                  received |-> received],
                                 subscribers, result)
          IN /\ currentResult' = result
             /\ history' = newHistory
             /\ storedHistory' = newHistory
             /\ logs' = t.logs
             /\ clock' = t.clock
             /\ received' = t.received
             /\ calls' = [calls EXCEPT ![c] =
                            [settled EXCEPT !.pc = IF t.threw THEN "rejected"
                                                   ELSE "fulfilled"]]
     ELSE /\ calls' = [calls EXCEPT ![c] = [settled EXCEPT !.pc = "fulfilled"]]
          /\ UNCHANGED <<currentResult, history, storedHistory, logs, clock,
                         received>>
  /\ UNCHANGED <<inputPrompt, autoOptimize, lastInvoke, subscribers, syncing,
                 callLimit, qVars, legacyVars, demoVars, templateVars>>

\* ------------------------------------------------------------------ actions
\* the textarea's onChange, a sample prompt, the demo's typing
SetInputPrompt(p) ==
  /\ inputPrompt' = p
  /\ UNCHANGED <<autoOptimize, isAnalyzing, currentResult, history,
                 storedHistory, calls, lastInvoke, datadogVars, callLimit, qVars, legacyVars, demoVars, templateVars>>

ToggleAutoOptimize ==
  /\ autoOptimize' = ~autoOptimize
  /\ UNCHANGED <<inputPrompt, isAnalyzing, currentResult, history,
                 storedHistory, calls, lastInvoke, datadogVars, callLimit, qVars, legacyVars, demoVars, templateVars>>

\* RUN_VERTEX_SCAN, disabled while analyzing or on a blank input
RunScan ==
  /\ ~isAnalyzing
  /\ Trim(Text(inputPrompt)) # <<>>
  /\ handleAnalyze(EmptyPrompt)
  /\ UNCHANGED <<inputPrompt, autoOptimize, currentResult, history,
                 storedHistory, datadogVars, callLimit, qVars, legacyVars, demoVars, templateVars>>

\* RE-RUN LAST: lastPrompt is history[0]?.original_prompt
RerunLast ==
  /\ ~isAnalyzing
  /\ history # <<>>
  /\ Text(history[1].original_prompt) # <<>>
  /\ handleAnalyze(history[1].original_prompt)
  /\ UNCHANGED <<inputPrompt, autoOptimize, currentResult, history,
                 storedHistory, datadogVars, callLimit, qVars, legacyVars, demoVars, templateVars>>

\* AnalysisDisplay's onOptimize, shown for a result with an optimization
\* while no analysis runs
OnOptimize ==
  /\ ~isAnalyzing
  /\ currentResult.optimization.present
  /\ inputPrompt' = currentResult.optimization.optimized_prompt
  /\ handleAnalyze(currentResult.optimization.optimized_prompt)
  /\ UNCHANGED <<autoOptimize, currentResult, history, storedHistory,
                 datadogVars, callLimit, qVars, legacyVars, demoVars, templateVars>>

\* the demo controller's 'analyze' step: await handleAnalyze(), not held back
\* by the button's disabled state (it runs on a blank input and while an
\* analysis is running)
DemoAnalyze ==
  /\ handleAnalyze(EmptyPrompt)
  /\ UNCHANGED <<inputPrompt, autoOptimize, currentResult, history,
                 storedHistory, datadogVars, callLimit, qVars, legacyVars, demoVars, templateVars>>

\* the demo controller's 'remediate' step
DemoRemediate ==
  /\ currentResult.optimization.present
  /\ inputPrompt' = currentResult.optimization.optimized_prompt
  /\ handleAnalyze(currentResult.optimization.optimized_prompt)
  /\ UNCHANGED <<autoOptimize, currentResult, history, storedHistory,
                 datadogVars, callLimit, qVars, legacyVars, demoVars, templateVars>>

\* ---------------------------------------------------------- the demo tour
\* DEMO_STEPS: what the effect does at each step besides choosing a tab (the
\* active tab is not part of the model)
DEMO_STEPS ==
  <<[prompt |-> FALSE, action |-> "none"],
    [prompt |-> TRUE, action |-> "none"],
    [prompt |-> FALSE, action |-> "analyze"],
    [prompt |-> FALSE, action |-> "none"],
    [prompt |-> FALSE, action |-> "none"],
    [prompt |-> FALSE, action |-> "remediate"]>>

\* the App renders: TourHUD reads DEMO_STEPS[demoState.step].title, which
\* throws for a step that is not an index of DEMO_STEPS
Rendered == ~(demoState.isActive /\ demoState.step >= Len(DEMO_STEPS))

Remove(seq, i) == SubSeq(seq, 1, i - 1) \o SubSeq(seq, i + 1, Len(seq))

\* the end of runStep: if (demoState.isAuto) setTimeout(..., 3000), with the
\* demoState of the run's closure
AfterStep(pend, run) ==
  IF run.isAuto THEN Append(pend, [run EXCEPT !.pc = "timer", !.call = 0]) ELSE pend

\* the effect's run for the committed state ds, up to its first suspension:
\* the typing loop's first character, or handleAnalyze up to its await, or
\* straight to the end of runStep
DemoEffect(ds, pend) ==
  LET stepData == DEMO_STEPS[ds.step + 1]
      run == [step |-> ds.step, isAuto |-> ds.isAuto, pc |-> "timer", call |-> 0]
      remediates == stepData.action = "remediate" /\ currentResult.optimization.present
      override == IF remediates THEN currentResult.optimization.optimized_prompt
                  ELSE EmptyPrompt
      analyzes == stepData.action = "analyze" \/ remediates
  IN /\ inputPrompt' = IF stepData.prompt THEN DemoTyping
                       ELSE IF remediates THEN override ELSE inputPrompt
     /\ IF analyzes THEN handleAnalyze(override)
        ELSE UNCHANGED <<isAnalyzing, calls, lastInvoke>>
     /\ demoPending' =
          IF stepData.prompt THEN Append(pend, [run EXCEPT !.pc = "typing"])
          ELSE IF analyzes /\ ~IsRejected(PromptToUse(override))
               THEN Append(pend, [run EXCEPT !.pc = "awaiting",
                                             !.call = Len(calls) + 1])
               ELSE AfterStep(pend, run)
     /\ Len(demoPending') <= MaxPending

\* setDemoState(ds) and the render that follows: the effect runs when
\* demoState.isActive or demoState.step has changed, and returns at once when
\* the demo is not active
DemoCommit(ds, pend) ==
  /\ demoState' = ds
  /\ IF /\ ds.isActive
        /\ ds.isActive # demoState.isActive \/ ds.step # demoState.step
        /\ ds.step < Len(DEMO_STEPS)
     THEN DemoEffect(ds, pend)
     ELSE /\ demoPending' = pend
          /\ UNCHANGED <<inputPrompt, isAnalyzing, calls, lastInvoke>>
  /\ UNCHANGED <<autoOptimize, currentResult, history, storedHistory, callLimit,
                 datadogVars, qVars, legacyVars, templateVars>>

\* the settings panel's buttons: Interactive Demo, Auto-Pilot Mode
DemoStart(auto) ==
  /\ Rendered
  /\ DemoCommit([isActive |-> TRUE, isAuto |-> auto, step |-> 0], demoPending)

\* TourHUD's onNext (the button is there when the demo is not on auto-pilot)
DemoNext ==
  /\ Rendered
  /\ demoState.isActive
  /\ ~demoState.isAuto
  /\ DemoCommit([demoState EXCEPT !.step = @ + 1], demoPending)

\* TourHUD's onClose
DemoClose ==
  /\ Rendered
  /\ demoState.isActive
  /\ DemoCommit([demoState EXCEPT !.isActive = FALSE], demoPending)

\* the typing loop of run i ends: the whole prompt is in the input buffer
DemoTyped(i) ==
  /\ Rendered
  /\ demoPending[i].pc = "typing"
  /\ inputPrompt' = DemoPrompt
  /\ demoPending' = AfterStep(Remove(demoPending, i), demoPending[i])
  /\ UNCHANGED <<demoState, autoOptimize, isAnalyzing, currentResult, history,
                 storedHistory, calls, callLimit, lastInvoke, datadogVars, qVars,
                 legacyVars, templateVars>>

\* the handleAnalyze that run i awaits has settled: runStep goes on to its
\* end, or is rejected with it
DemoAwaited(i) ==
  /\ demoPending[i].pc = "awaiting"
  /\ calls[demoPending[i].call].pc \in {"fulfilled", "rejected"}
  /\ demoPending' = IF calls[demoPending[i].call].pc = "fulfilled"
                    THEN AfterStep(Remove(demoPending, i), demoPending[i])
                    ELSE Remove(demoPending, i)
  /\ UNCHANGED <<demoState, appVars, datadogVars, qVars, legacyVars, templateVars>>

\* a timer that advances whatever the step is
DemoTimerUnguarded(i) ==
  /\ Rendered
  /\ demoPending[i].pc = "timer"
  /\ DemoCommit([demoState EXCEPT !.step = @ + 1], Remove(demoPending, i))

\* the auto-pilot timer of run i fires
DemoTimer(i) ==
  /\ Rendered
  /\ demoPending[i].pc = "timer"
  /\ DemoCommit(IF demoPending[i].step < Len(DEMO_STEPS) - 1
                THEN [demoState EXCEPT !.step = @ + 1]
                ELSE [demoState EXCEPT !.isActive = FALSE],
                Remove(demoPending, i))

\* ------------------------------------------------------------- templates
\* a TemplateVersion has id, content, description and versionNumber (its
\* timestamp, Date.now(), is left out); templateManager.isEditing stands for
\* isEditingContent || isEditingDescription, and lastAction records which
\* button made the latest version: "commit" or "restore" of a version
Descriptions == {"", "note"}

\* TemplateManager's effect on [selectedTemplate, currentVersion]: the edit
\* fields take the latest version's content and description
SelectedEffect(tpl, action) ==
  [selectedTemplate |-> tpl, isEditing |-> FALSE,
   editedContent |-> tpl.versions[Len(tpl.versions)].content,
   editedDescription |-> tpl.versions[Len(tpl.versions)].description,
   lastAction |-> action]

\* handleSaveAsNewTemplate and App's onSave: a template with one version,
\* numbered 1, of the input buffer's content
SaveTemplate(description) ==
  /\ uuids + 2 <= MaxUuids
  /\ Text(inputPrompt) # <<>>
  /\ LET initialVersion == [id |-> uuids + 1, content |-> inputPrompt,
                            description |-> description, versionNumber |-> 1]
         newTpl == [id |-> uuids + 2, name |-> "name",
                    versions |-> <<initialVersion>>]
     IN /\ templates' = <<newTpl>> \o templates
        /\ storedTemplates' = <<newTpl>> \o templates
  /\ uuids' = uuids + 2
  /\ UNCHANGED <<templateManager, appVars, datadogVars, qVars, legacyVars, demoVars>>

\* a click on a template of the list: setSelectedTemplate(tpl)
SelectTemplate(i) ==
  /\ templateManager' = SelectedEffect(templates[i], templateManager.lastAction)
  /\ UNCHANGED <<templates, storedTemplates, uuids, appVars, datadogVars, qVars,
                 legacyVars, demoVars>>

\* the edit buttons and the edit fields of the selected template
EditTemplate(content, description) ==
  /\ templateManager.selectedTemplate # NoTemplate
  /\ templateManager' = [templateManager EXCEPT !.isEditing = TRUE,
                                                !.editedContent = content,
                                                !.editedDescription = description]
  /\ UNCHANGED <<templates, storedTemplates, uuids, appVars, datadogVars, qVars,
                 legacyVars, demoVars>>

\* the new version that createNewVersion builds
NewVersion(tpl, content, description) ==
  [id |-> uuids + 1, content |-> content, description |-> description,
   versionNumber |-> Len(tpl.versions) + 1]

\* createNewVersion and App's onUpdate: the new version goes to the end of
\* the selected template's versions, in the App's list and in localStorage
createNewVersion(content, description, action) ==
  /\ templateManager.selectedTemplate # NoTemplate
  /\ uuids + 1 <= MaxUuids
  /\ LET tpl == templateManager.selectedTemplate
         updated == [tpl EXCEPT !.versions =
                       Append(@, NewVersion(tpl, content, description))]
         updatedTpls == [i \in 1..Len(templates) |->
                           IF templates[i].id = updated.id THEN updated
                           ELSE templates[i]]
     IN /\ templates' = updatedTpls
        /\ storedTemplates' = updatedTpls
        /\ templateManager' = SelectedEffect(updated, action)
  /\ uuids' = uuids + 1
  /\ UNCHANGED <<appVars, datadogVars, qVars, legacyVars, demoVars>>

\* handleCommitVersion (the button is there while a field is being edited)
CommitVersion ==
  /\ templateManager.isEditing
  /\ createNewVersion(templateManager.editedContent,
                      templateManager.editedDescription,
                      [kind |-> "commit", version |-> 0])

\* a restore that cuts the versions back to the restored one
RestoreVersionTruncate(k) ==
  /\ templateManager.selectedTemplate # NoTemplate
  /\ k < Len(templateManager.selectedTemplate.versions)
  /\ uuids + 1 <= MaxUuids
  /\ LET tpl == templateManager.selectedTemplate
         updated == [tpl EXCEPT !.versions = SubSeq(@, 1, k)]
         updatedTpls == [i \in 1..Len(templates) |->
                           IF templates[i].id = updated.id THEN updated
                           ELSE templates[i]]
     IN /\ templates' = updatedTpls
        /\ storedTemplates' = updatedTpls
        /\ templateManager' =
             SelectedEffect(updated, [kind |-> "restore", version |-> k])
  /\ uuids' = uuids + 1
  /\ UNCHANGED <<appVars, datadogVars, qVars, legacyVars, demoVars>>

\* handleRestoreVersion of version k (the button is on every version but the
\* latest)
RestoreVersion(k) ==
  /\ templateManager.selectedTemplate # NoTemplate
  /\ k < Len(templateManager.selectedTemplate.versions)
  /\ createNewVersion(templateManager.selectedTemplate.versions[k].content,
                      templateManager.selectedTemplate.versions[k].description,
                      [kind |-> "restore", version |-> k])

\* the trash button of template i and App's onDelete
DeleteTemplate(i) ==
  /\ LET Other(t) == t.id # templates[i].id
     IN /\ templates' = SelectSeq(templates, Other)
        /\ storedTemplates' = SelectSeq(templates, Other)
  /\ templateManager' =
       IF templateManager.selectedTemplate.id = templates[i].id
       THEN [templateManager EXCEPT !.selectedTemplate = NoTemplate]
       ELSE templateManager
  /\ UNCHANGED <<uuids, appVars, datadogVars, qVars, legacyVars, demoVars>>

\* the backend handles the request of call c
Backend(c) ==
  /\ calls[c].pc = "fetching"
  /\ \E gen \in {"ok", "error", "http"}, e \in Evaluations, rewriteOk \in BOOLEAN :
       LET b == BackendAnalyze(calls[c].prompt, calls[c].autoOptimize, gen, e, rewriteOk)
       IN calls' = [calls EXCEPT ![c].pc = "responded",
                                 ![c].response = b.response,
                                 ![c].rewrites = @ + b.rewrites,
                                 ![c].rewriteOk = b.rewrites > 0 /\ rewriteOk]
  /\ UNCHANGED <<inputPrompt, autoOptimize, isAnalyzing, currentResult, history,
                 storedHistory, lastInvoke, datadogVars, callLimit, qVars, legacyVars, demoVars, templateVars>>

\* runAnalysis returns from its try block, and handleAnalyze resumes
RunAnalysisReturn(c) ==
  /\ calls[c].pc = "responded"
  /\ calls[c].response.ok
  /\ LET result == BackendResult(c, calls[c].prompt, calls[c].response)
     IN Resume(c, [calls[c] EXCEPT !.path = "backend", !.scored = @ + 1,
                                   !.result = result], result)

\* a catch block that sends the request again instead of falling back
RunAnalysisCatchRetry(c) ==
  /\ calls[c].pc \in {"fetching", "responded"}
  /\ calls[c].requests <= 2
  /\ calls' = [calls EXCEPT ![c].pc = "fetching", ![c].requests = @ + 1]
  /\ UNCHANGED <<inputPrompt, autoOptimize, isAnalyzing, currentResult, history,
                 storedHistory, lastInvoke, datadogVars, callLimit, qVars, legacyVars, demoVars, templateVars>>

\* the request failed (no answer, a non-OK answer, an unreadable body):
\* runAnalysis returns from its catch block, and handleAnalyze resumes
RunAnalysisCatch(c) ==
  /\ calls[c].pc \in {"fetching", "responded"}
  /\ LET result == FallbackResult(c, calls[c].prompt, calls[c].autoOptimize)
     IN Resume(c, [calls[c] EXCEPT !.path = "fallback", !.scored = @ + 1,
                                   !.avg = avgPromptQuality(result.quality_dimensions),
                                   !.result = result], result)

\* the history tab's purge button
ClearHistory ==
  /\ history' = <<>>
  /\ storedHistory' = <<>>
  /\ UNCHANGED <<inputPrompt, autoOptimize, isAnalyzing, currentResult, calls,
                 lastInvoke, datadogVars, callLimit, qVars, legacyVars, demoVars, templateVars>>

\* a click on a history entry
SelectHistory(i) ==
  /\ currentResult' = history[i]
  /\ UNCHANGED <<inputPrompt, autoOptimize, isAnalyzing, history, storedHistory,
                 calls, lastInvoke, datadogVars, callLimit, qVars, legacyVars, demoVars, templateVars>>

subscribe(cb) ==
  /\ Len(subscribers) < MaxSubscribers
  /\ subscribers' = Append(subscribers, cb)
  /\ UNCHANGED <<appVars, logs, clock, received, syncing, qVars, legacyVars,
                 demoVars, templateVars>>

\* the function subscribe returned: this.subscribers.filter(s => s !== cb)
unsubscribe(cb) ==
  /\ \E i \in 1..Len(subscribers) : subscribers[i] = cb
  /\ subscribers' = LET Other(s) == s # cb IN SelectSeq(subscribers, Other)
  /\ UNCHANGED <<appVars, logs, clock, received, syncing, qVars, legacyVars,
                 demoVars, templateVars>>

\* the Metrics tab is mounted: its effect subscribes a callback of its own
MountMetricsTab ==
  /\ \A i \in 1..Len(subscribers) : subscribers[i] # "metricsTab"
  /\ subscribe("metricsTab")

\* the Metrics tab is unmounted: the effect's cleanup is the unsubscribe
\* function
UnmountMetricsTab == unsubscribe("metricsTab")

\* syncMetrics up to its delay: the first log. The caller is the Metrics
\* tab's sync button, which is disabled while a sync is running.
SyncStart ==
  /\ \E i \in 1..Len(subscribers) : subscribers[i] = "metricsTab"
  /\ syncing = 0
  /\ clock < MaxLogs
  /\ LET t == emitLog([logs |-> logs, clock |-> clock, threw |-> FALSE,
                       received |-> received],
                      subscribers, "info", "Manual metrics sync initiated by user", 0)
     IN logs' = t.logs /\ clock' = t.clock /\ received' = t.received
  /\ syncing' = syncing + 1
  /\ UNCHANGED <<subscribers, appVars, qVars, legacyVars, demoVars, templateVars>>

\* syncMetrics after its delay: the second log (the alerts are not part of
\* the model)
SyncFinish ==
  /\ syncing > 0
  /\ clock < MaxLogs
  /\ LET t == emitLog([logs |-> logs, clock |-> clock, threw |-> FALSE,
                       received |-> received],
                      subscribers, "info",
                      "Successfully fetched latest telemetry from Datadog API", 0)
     IN logs' = t.logs /\ clock' = t.clock /\ received' = t.received
  /\ syncing' = syncing - 1
  /\ UNCHANGED <<subscribers, appVars, qVars, legacyVars, demoVars, templateVars>>

\* the telemetry service alone: the Metrics tab comes and goes, and its sync
\* button emits logs until the buffer has been full for a while
NextBuffer ==
  \/ MountMetricsTab
  \/ UnmountMetricsTab
  \/ SyncStart
  \/ SyncFinish

SpecBuffer == Init /\ [][NextBuffer]_vars

\* one analysis at a time, on every input
Next ==
  \/ \E p \in InputPrompts : SetInputPrompt(p)
  \/ ToggleAutoOptimize
  \/ RunScan
  \/ DemoAnalyze
  \/ \E c \in 1..Len(calls) : Backend(c)
  \/ \E c \in 1..Len(calls) : RunAnalysisReturn(c)
  \/ \E c \in 1..Len(calls) : RunAnalysisCatch(c)
  \/ ClearHistory
  \/ \E i \in 1..Len(history) : SelectHistory(i)

Spec == Init /\ [][Next]_vars

\* chains of remediations: an analysis of "fix code", then the analyses that
\* the result's optimization, or the re-run button, starts
InitChain == AppInit /\ DatadogInit /\ QOff /\ LegacyInit /\ DemoInit /\ TemplateInit /\ callLimit = MaxChain

NextChain ==
  \/ SetInputPrompt(FixCode)
  \/ RunScan
  \/ RerunLast
  \/ OnOptimize
  \/ DemoRemediate
  \/ \E c \in 1..Len(calls) : Backend(c)
  \/ \E c \in 1..Len(calls) : RunAnalysisReturn(c)
  \/ \E c \in 1..Len(calls) : RunAnalysisCatch(c)

SpecChain == InitChain /\ [][NextChain]_vars

\* the demo tour in both modes, started, continued, closed and started again,
\* next to analyses started with the button, while the backend is away
NextDemo ==
  \/ Rendered /\ RunScan
  \/ \E auto \in BOOLEAN : DemoStart(auto)
  \/ DemoNext
  \/ DemoClose
  \/ \E i \in 1..Len(demoPending) : DemoTyped(i)
  \/ \E i \in 1..Len(demoPending) : DemoAwaited(i)
  \/ \E i \in 1..Len(demoPending) : DemoTimer(i)
  \/ \E c \in 1..Len(calls) : RunAnalysisCatch(c)

SpecDemo == InitChain /\ [][NextDemo]_vars

\* one demo on auto-pilot, started at step 0 and left alone: the user neither
\* closes it nor starts another, but may edit the input buffer and switch
\* auto-optimize
DemoStartOnce ==
  /\ ~demoState.isActive
  /\ demoState.step = 0
  /\ demoPending = <<>>
  /\ DemoStart(TRUE)

NextAuto ==
  \/ DemoStartOnce
  \/ \E p \in {BlankPrompt, FixCode} : SetInputPrompt(p)
  \/ ToggleAutoOptimize
  \/ \E i \in 1..Len(demoPending) : DemoTyped(i)
  \/ \E i \in 1..Len(demoPending) : DemoAwaited(i)
  \/ \E i \in 1..Len(demoPending) : DemoTimer(i)
  \/ \E c \in 1..Len(calls) : Backend(c)
  \/ \E c \in 1..Len(calls) : RunAnalysisReturn(c)
  \/ \E c \in 1..Len(calls) : RunAnalysisCatch(c)

\* the delays of the typing loop and the auto-pilot timer run out, the
\* request's promise settles, and the event loop runs the continuations
SpecAuto ==
  /\ InitChain
  /\ [][NextAuto]_vars
  /\ \A i \in 1..MaxPending :
       /\ WF_vars(i <= Len(demoPending) /\ DemoTyped(i))
       /\ WF_vars(i <= Len(demoPending) /\ DemoAwaited(i))
       /\ WF_vars(i <= Len(demoPending) /\ DemoTimer(i))
  /\ \A c \in 1..MaxChain :
       WF_vars(c <= Len(calls) /\ (RunAnalysisReturn(c) \/ RunAnalysisCatch(c)))

\* templates saved from the input buffer, selected, edited, committed,
\* restored and deleted
NextTemplates ==
  \/ \E p \in {FixCode, LongPrompt} : SetInputPrompt(p)
  \/ SaveTemplate("")
  \/ \E i \in 1..Len(templates) : SelectTemplate(i)
  \/ \E p \in {FixCode, LongPrompt}, d \in Descriptions : EditTemplate(p, d)
  \/ CommitVersion
  \/ \E k \in 1..MaxUuids : RestoreVersion(k)
  \/ \E i \in 1..Len(templates) : DeleteTemplate(i)

SpecTemplates == Init /\ [][NextTemplates]_vars

\* analyses of "fix code" while telemetry callbacks come and go
NextTelemetry ==
  \/ SetInputPrompt(FixCode)
  \/ ToggleAutoOptimize
  \/ RunScan
  \/ \E c \in 1..Len(calls) : Backend(c)
  \/ \E c \in 1..Len(calls) : RunAnalysisReturn(c)
  \/ \E c \in 1..Len(calls) : RunAnalysisCatch(c)
  \/ \E cb \in Callbacks : subscribe(cb)
  \/ \E cb \in Callbacks : unsubscribe(cb)

SpecTelemetry == Init /\ [][NextTelemetry]_vars

\* the scorer on its own: analyzePromptQuality of a prompt, and of the prompt
\* with a filler word inserted as one more token
InitQ ==
  /\ AppInit /\ DatadogInit /\ LegacyInit /\ DemoInit /\ TemplateInit /\ callLimit = 0
  /\ qPc = "input"
  /\ qPrompt \in QPrompts
  /\ qVariant = <<>>
  /\ qDims = NoQuality
  /\ qVariantDims = NoQuality

QInsertFiller(f, i) ==
  /\ qPc = "input"
  /\ i \in TokenGaps(qPrompt)
  /\ qVariant' = InsertToken(qPrompt, i, f)
  /\ qPc' = "inserted"
  /\ UNCHANGED <<qPrompt, qDims, qVariantDims, appVars, datadogVars, legacyVars, demoVars, templateVars>>

QAnalyze ==
  /\ qPc \in {"input", "inserted"}
  /\ qDims' = analyzePromptQuality(qPrompt)
  /\ qVariantDims' = IF qPc = "inserted" THEN analyzePromptQuality(qVariant)
                     ELSE NoQuality
  /\ qPc' = IF qPc = "inserted" THEN "scoredBoth" ELSE "scored"
  /\ UNCHANGED <<qPrompt, qVariant, appVars, datadogVars, legacyVars, demoVars, templateVars>>

NextQ ==
  \/ \E f \in Fillers, i \in 0..MaxLen : QInsertFiller(f, i)
  \/ QAnalyze

SpecQ == InitQ /\ [][NextQ]_vars

\* the scorer on the larger input set
InitScore ==
  /\ AppInit /\ DatadogInit /\ LegacyInit /\ DemoInit /\ TemplateInit /\ callLimit = 0
  /\ qPc = "input"
  /\ qPrompt \in ScorePrompts
  /\ qVariant = <<>>
  /\ qDims = NoQuality
  /\ qVariantDims = NoQuality

NextScore == QAnalyze

SpecScore == InitScore /\ [][NextScore]_vars

\* the scorer called three times: on a prompt, on another prompt, and on the
\* first prompt again (the harness keeps the other prompt in qVariant and the
\* scores of the third call in qVariantDims)
OtherPrompts == {<<>>, <<"fix">>, <<"-", " ", "Python">>, <<"1", ".", "\n", "{">>}

QAnalyzeOther(p) ==
  /\ qPc = "scored"
  /\ qVariant' = p
  /\ qVariantDims' = analyzePromptQuality(p)
  /\ qPc' = "between"
  /\ UNCHANGED <<qPrompt, qDims, appVars, datadogVars, legacyVars, demoVars, templateVars>>

\* a third call whose bullet test goes on from where the second call's match
\* ended (one regular expression object with a lastIndex, kept between calls)
QAnalyzeAgainSharedRegex ==
  /\ qPc = "between"
  /\ LET lastIndex ==
           IF \E i \in 1..Len(qVariant) : qVariant[i] \in {"-", "*"}
           THEN CHOOSE i \in 1..Len(qVariant) :
                  /\ qVariant[i] \in {"-", "*"}
                  /\ \A j \in 1..(i - 1) : qVariant[j] \notin {"-", "*"}
           ELSE 0
         rest == SubSeq(qPrompt, lastIndex + 1, Len(qPrompt))
     IN qVariantDims' = [analyzePromptQuality(qPrompt) EXCEPT
                           !.structure = StructureScore(rest)]
  /\ qPc' = "again"
  /\ UNCHANGED <<qPrompt, qVariant, qDims, appVars, datadogVars, legacyVars, demoVars, templateVars>>

QAnalyzeAgain ==
  /\ qPc = "between"
  /\ qVariantDims' = analyzePromptQuality(qPrompt)
  /\ qPc' = "again"
  /\ UNCHANGED <<qPrompt, qVariant, qDims, appVars, datadogVars, legacyVars, demoVars, templateVars>>

NextRepeat ==
  \/ QAnalyze
  \/ \E p \in OtherPrompts : QAnalyzeOther(p)
  \/ QAnalyzeAgain

SpecRepeat == InitQ /\ [][NextRepeat]_vars

\* ------------------------------------------------------------ the legacy App
\* legacy handleAnalyze up to its await: validation, setLoading(true), and the
\* one request analyzePrompt sends
legacyHandleAnalyze(p) ==
  /\ IF Trim(Text(p)) = <<>>
     THEN UNCHANGED legacyVars
     ELSE /\ Len(legacyCalls) < MaxCalls
          /\ legacyLoading' = TRUE
          /\ legacyCalls' = Append(legacyCalls,
                                   [pc |-> "awaiting", prompt |-> p, requests |-> 1,
                                    outcome |-> "none", data |-> NoLegacyData,
                                    result |-> NoLegacyResult])
          /\ UNCHANGED <<legacyResult, legacyHistory>>
  /\ UNCHANGED <<appVars, datadogVars, qVars, demoVars, templateVars>>

\* analyzePrompt settles for legacy call c: it returned the mapping of the
\* response data (the try block ran to its end: setResult, setHistory) or it
\* threw (the catch block); finally setLoading(false)
legacySettle(c, outcome, data) ==
  /\ legacyCalls[c].pc = "awaiting"
  /\ IF outcome = "returned"
     THEN LET settled == {k \in 1..Len(legacyCalls) : legacyCalls[k].pc = "settled"}
              result == legacyAnalyzePrompt(c, Cardinality(settled) + 1,
                                            legacyCalls[c].prompt, data)
          IN /\ legacyCalls' = [legacyCalls EXCEPT ![c].pc = "settled",
                                                    ![c].outcome = outcome,
                                                    ![c].data = data,
                                                    ![c].result = result]
             /\ legacyResult' = result
             /\ legacyHistory' = Take(<<result>> \o legacyHistory, HistoryLimit)
     ELSE /\ legacyCalls' = [legacyCalls EXCEPT ![c].pc = "settled",
                                                 ![c].outcome = outcome]
          /\ UNCHANGED <<legacyResult, legacyHistory>>
  /\ legacyLoading' = FALSE
  /\ UNCHANGED <<appVars, datadogVars, qVars, demoVars, templateVars>>

\* legacy handleClearHistory
legacyClearHistory ==
  /\ legacyHistory' = <<>>
  /\ UNCHANGED <<legacyLoading, legacyCalls, legacyResult, appVars, datadogVars,
                 qVars, demoVars, templateVars>>

\* ------------------------------------------- histories of earlier sessions
\* what the mount effects find in localStorage: nothing, or the history that
\* an earlier session saved, with one entry less than the limit or with as
\* many (entry i is the i-th newest; its id and timestamp are -i)
StoredLengths == {0, HistoryLimit - 1, HistoryLimit}

StoredHistory(n) ==
  [i \in 1..n |-> [NoResult EXCEPT !.id = -i, !.original_prompt = FixCode,
                                   !.status = "success"]]

StoredLegacyHistory(n) ==
  [i \in 1..n |-> [NoLegacyResult EXCEPT !.id = -i, !.timestamp = -i,
                                         !.originalPrompt = FixCode]]

\* both Apps after their mount effects have loaded the saved history
InitHistory ==
  /\ inputPrompt = EmptyPrompt
  /\ autoOptimize = TRUE
  /\ isAnalyzing = FALSE
  /\ currentResult = NoResult
  /\ calls = <<>>
  /\ lastInvoke = "none"
  /\ callLimit = MaxChain
  /\ legacyLoading = FALSE
  /\ legacyCalls = <<>>
  /\ legacyResult = NoLegacyResult
  /\ \E n \in StoredLengths :
       /\ history = StoredHistory(n)
       /\ storedHistory = StoredHistory(n)
       /\ legacyHistory = StoredLegacyHistory(n)
  /\ DatadogInit /\ QOff /\ DemoInit /\ TemplateInit

\* analyses started with the buttons (one at a time in the current App) while
\* the backend is away, and history clears, in both Apps
NextHistory ==
  \/ SetInputPrompt(FixCode)
  \/ RunScan
  \/ RerunLast
  \/ \E c \in 1..Len(calls) : RunAnalysisCatch(c)
  \/ ClearHistory
  \/ legacyHandleAnalyze(FixCode)
  \/ \E c \in 1..Len(legacyCalls), outcome \in {"returned", "threw"} :
       legacySettle(c, outcome, PlainLegacyData)
  \/ legacyClearHistory

SpecHistory == InitHistory /\ [][NextHistory]_vars

\* the legacy App alone, on every answer of the backend
InitLegacy ==
  /\ AppInit /\ DatadogInit /\ QOff /\ DemoInit /\ TemplateInit
  /\ callLimit = 0
  /\ legacyLoading = FALSE
  /\ legacyCalls = <<>>
  /\ legacyResult = NoLegacyResult
  /\ \E n \in StoredLengths : legacyHistory = StoredLegacyHistory(n)

NextLegacy ==
  \/ \E p \in {BlankPrompt, FixCode} : legacyHandleAnalyze(p)
  \/ \E c \in 1..Len(legacyCalls), data \in LegacyData :
       legacySettle(c, "returned", data)
  \/ \E c \in 1..Len(legacyCalls) : legacySettle(c, "threw", NoLegacyData)
  \/ legacyClearHistory

SpecLegacy == InitLegacy /\ [][NextLegacy]_vars

\* ------------------------------------------------- analyses under fairness
\* the promise of call c's request settles and the continuation runs
Settle(c) == c <= Len(calls) /\ (RunAnalysisReturn(c) \/ RunAnalysisCatch(c))

LegacySettle(c) ==
  /\ c <= Len(legacyCalls)
  /\ \E outcome \in {"returned", "threw"} : legacySettle(c, outcome, PlainLegacyData)

NextLive ==
  \/ SetInputPrompt(FixCode)
  \/ RunScan
  \/ \E c \in 1..Len(calls) : Backend(c)
  \/ \E c \in 1..Len(calls) : RunAnalysisReturn(c)
  \/ \E c \in 1..Len(calls) : RunAnalysisCatch(c)
  \/ subscribe("faulty")
  \/ \E p \in {BlankPrompt, FixCode} : legacyHandleAnalyze(p)
  \/ \E c \in 1..Len(legacyCalls), outcome \in {"returned", "threw"} :
       legacySettle(c, outcome, PlainLegacyData)

\* every request's promise settles (the browser resolves or rejects a fetch)
\* and the event loop runs the continuation
SpecLive ==
  /\ Init
  /\ [][NextLive]_vars
  /\ \A c \in 1..MaxCalls : WF_vars(Settle(c))
  /\ \A c \in 1..MaxCalls : WF_vars(LegacySettle(c))

\* ------------------------------------------------------------------- claims
\* runAnalysis has returned a result for call c
Returned(c) == calls[c].path # "none"

\* C1, as stated: every result runAnalysis returns, from the backend's answer
\* or from the demo fallback, has an optimization exactly when auto-optimize
\* was on, the result's accuracy is below the 0.80 threshold and the rewrite
\* succeeded (the fallback's rewrite is a string template, which cannot fail).
C1_OptimizationIffGate ==
  \A c \in 1..Len(calls) :
    Returned(c) =>
      (calls[c].result.optimization.present <=>
         /\ calls[c].autoOptimize
         /\ calls[c].result.metrics.accuracy_score < Pct(AccuracyThreshold)
         /\ calls[c].path = "backend" => calls[c].rewriteOk)

C3_NoOptimizationWhenOff ==
  \A c \in 1..Len(calls) :
    Returned(c) /\ ~calls[c].autoOptimize => ~calls[c].result.optimization.present

\* C4, as stated: the prompt quality score is between 0 and 98 wherever it
\* gates the optimization; the fallback gates on avgPromptQuality.
C4_GateScoreCapped ==
  \A c \in 1..Len(calls) :
    calls[c].path = "fallback" =>
      /\ 0 <= calls[c].avg
      /\ calls[c].avg <= AccuracyCap * QualityUnit

\* C5: the accuracy_score of every result runAnalysis returns is in [0, 1].
C5_AccuracyInUnitInterval ==
  \A c \in 1..Len(calls) :
    Returned(c) =>
      /\ 0 <= calls[c].result.metrics.accuracy_score
      /\ calls[c].result.metrics.accuracy_score <= AccuracyUnit

\* C5, the case: the fallback scored a prompt whose weighted quality is above
\* 98, and reported the capped accuracy.
C5_Witness ==
  \E c \in 1..Len(calls) :
    /\ calls[c].path = "fallback"
    /\ calls[c].avg > AccuracyCap * QualityUnit
    /\ calls[c].result.metrics.accuracy_score = Pct(AccuracyCap)

\* C6, as stated: the accuracy of a successful result is the 90/10 blend of
\* the capped prompt quality of its dimensions and the response quality of
\* the semantic_similarity and hallucination_score it reports.
C6_AccuracyIsBlend ==
  \A c \in 1..Len(calls) :
    Returned(c) /\ calls[c].result.status = "success" =>
      calls[c].result.metrics.accuracy_score =
        BlendedAccuracy(calls[c].result.quality_dimensions,
                        calls[c].result.metrics.semantic_similarity,
                        calls[c].result.metrics.hallucination_score)

\* C7, as stated: a filler word ("please", "my", "thanks") inserted as one
\* more token leaves meaningful_length, specificity and clarity unchanged.
C7_FillerNeutral ==
  qPc = "scoredBoth" =>
    /\ qVariantDims.meaningfulLength3 = qDims.meaningfulLength3
    /\ qVariantDims.specificity = qDims.specificity
    /\ qVariantDims.clarity = qDims.clarity

\* C8: an analysis sends one request, for which the backend makes at most one
\* rewrite call, and builds one result; the prompt an optimization suggests
\* is scored only by a new analysis.
C8_OneRewritePerAnalysis ==
  \A c \in 1..Len(calls) :
    /\ calls[c].requests = 1
    /\ calls[c].rewrites <= 1
    /\ calls[c].scored <= 1

\* C8, the case: an analysis got its optimization from a rewrite, the
\* suggested prompt was submitted as the next analysis, and that analysis got
\* a rewrite of its own.
C8_Witness ==
  \E c \in 1..Len(calls) : \E d \in 1..Len(calls) :
    /\ c < d
    /\ calls[c].path = "backend"
    /\ calls[c].rewrites = 1
    /\ calls[c].result.optimization.present
    /\ calls[d].prompt = calls[c].result.optimization.optimized_prompt
    /\ calls[d].path = "backend"
    /\ calls[d].rewrites = 1

\* C9: no analysis is ever started (no request sent, nothing scored) for an
\* empty or whitespace-only prompt, and the invocation of handleAnalyze that
\* rejects one leaves the result, the history, the stored history, the
\* analyzing flag and the telemetry logs as they were.
C9_BlankPromptRejected ==
  /\ [](\A c \in 1..Len(calls) : Trim(Text(calls[c].prompt)) # <<>>)
  /\ [][lastInvoke # "rejected" /\ lastInvoke' = "rejected" =>
          UNCHANGED <<calls, isAnalyzing, currentResult, history, storedHistory,
                      logs>>]_vars

\* C9, the case: handleAnalyze was invoked on a whitespace-only input while
\* an analysis was running, and returned at its validation.
C9_Witness ==
  /\ lastInvoke = "rejected"
  /\ inputPrompt = BlankPrompt
  /\ isAnalyzing
  /\ Len(calls) = 1

\* the states in which handleAnalyze's promise has settled
Terminal == {"fulfilled", "rejected"}

\* C11: an analysis sends one request and builds at most one result; once
\* its handleAnalyze has settled nothing about it changes again; every
\* started analysis settles, and the analyzing flag (the loading flag of the
\* legacy App) goes back to false.
C11_TerminatesOnce ==
  /\ [](\A c \in 1..Len(calls) : calls[c].requests = 1 /\ calls[c].scored <= 1)
  /\ [](\A c \in 1..Len(legacyCalls) : legacyCalls[c].requests = 1)
  /\ [][\A c \in 1..Len(calls) :
          calls[c].pc \in Terminal => calls'[c] = calls[c]]_vars
  /\ \A c \in 1..MaxCalls :
       (Len(calls) >= c) ~> (Len(calls) >= c /\ calls[c].pc \in Terminal)
  /\ isAnalyzing ~> ~isAnalyzing
  /\ legacyLoading ~> ~legacyLoading

\* C11, the case: an analysis whose request failed has settled with the
\* fallback's result, a legacy analysis has settled by a throw, and both flags
\* are back to false.
C11_Witness ==
  /\ \E c \in 1..Len(calls) :
       /\ calls[c].pc \in Terminal
       /\ calls[c].path = "fallback"
       /\ calls[c].scored = 1
  /\ \E c \in 1..Len(legacyCalls) :
       legacyCalls[c].pc = "settled" /\ legacyCalls[c].outcome = "threw"
  /\ ~isAnalyzing
  /\ ~legacyLoading

\* C10, as stated: handleAnalyze completes normally whatever the telemetry
\* callbacks do; its promise is never rejected.
C10_TelemetryFailureSwallowed ==
  \A c \in 1..Len(calls) : calls[c].pc # "rejected"

\* C12: a result runAnalysis returns with status "error" has no optimization,
\* and a result with status "error" never becomes the current result or a
\* history entry.
C12_NoOptimizationOnError ==
  /\ \A c \in 1..Len(calls) :
       Returned(c) /\ calls[c].result.status = "error" =>
         ~calls[c].result.optimization.present
  /\ currentResult.status # "error"
  /\ \A i \in 1..Len(history) : history[i].status # "error"

\* C12, the case: the backend reported a generation failure, runAnalysis
\* returned the result with status "error", and handleAnalyze dropped it.
C12_Witness ==
  \E c \in 1..Len(calls) :
    /\ calls[c].path = "backend"
    /\ calls[c].pc = "fulfilled"
    /\ calls[c].result.status = "error"
    /\ calls[c].autoOptimize
    /\ currentResult = NoResult

\* C13: the optimized_prompt of a result's optimization is a text other than
\* the result's original_prompt, on the backend path and on the fallback path.
C13_OptimizedPromptDiffers ==
  \A c \in 1..Len(calls) :
    Returned(c) /\ calls[c].result.optimization.present =>
      Text(calls[c].result.optimization.optimized_prompt)
        # Text(calls[c].result.original_prompt)

\* C13, the case: the fallback suggested its "[Optimized] " rewrite of the
\* prompt it analysed.
C13_Witness ==
  \E c \in 1..Len(calls) :
    /\ calls[c].path = "fallback"
    /\ calls[c].result.optimization.present
    /\ Text(calls[c].result.optimization.optimized_prompt)
         = WrapText("demo") \o Text(calls[c].result.original_prompt)

\* C14: when the backend's rewrite call failed after the generation succeeded
\* and runAnalysis converted the backend's answer, the result has status
\* "success" and no optimization.
C14_RewriteFailureIsSuccess ==
  \A c \in 1..Len(calls) :
    /\ calls[c].path = "backend"
    /\ calls[c].rewrites = 1
    /\ ~calls[c].rewriteOk
    => /\ calls[c].result.status = "success"
       /\ ~calls[c].result.optimization.present

\* C14, the case: the rewrite for "fix code" failed and handleAnalyze stored
\* the successful result without an optimization.
C14_Witness ==
  \E c \in 1..Len(calls) :
    /\ calls[c].path = "backend"
    /\ calls[c].rewrites = 1
    /\ ~calls[c].rewriteOk
    /\ calls[c].pc = "fulfilled"
    /\ currentResult = calls[c].result
    /\ currentResult.status = "success"

\* the places of p where a token that is exactly one word of table starts
TableTokens(p, table) ==
  {i \in TokenStarts(p) : TokenEnd(p, i) = i /\ ToLowerCase(p[i]) \in table}

\* p has a numbered-list marker: a digit followed by "."
HasListMarker(p) == \E i \in 1..(Len(p) - 1) : p[i] \in Digits /\ p[i + 1] = "."

\* p has a code fence, a numbered-list marker and three recognized technical
\* terms or more
IsStructured(p) ==
  /\ Includes(p, "FENCE")
  /\ HasListMarker(p)
  /\ Cardinality(TableTokens(p, techTerms)) >= 3

\* C15, as stated: a prompt with a code fence, a numbered list and at least
\* three technical terms scores context 100, structure 100 and a weighted
\* prompt quality of 80 or more.
C15_StructuredAtLeast80 ==
  qPc = "scored" /\ IsStructured(qPrompt) =>
    /\ qDims.context = 100
    /\ qDims.structure = 100
    /\ avgPromptQuality(qDims) >= 80 * QualityUnit

\* C15, amended: such a prompt scores context 100 and structure 100, and a
\* weighted prompt quality of 65 or more (the fence, the list marker and three
\* technical terms alone give 65.53, not 80).
C15_StructuredAtLeast65 ==
  qPc = "scored" /\ IsStructured(qPrompt) =>
    /\ qDims.context = 100
    /\ qDims.structure = 100
    /\ avgPromptQuality(qDims) >= 65 * QualityUnit

\* C15, the case: the fence and the list marker in one token followed by
\* three technical terms, scored 65.53.
C15_Witness ==
  /\ qPc = "scored"
  /\ IsStructured(qPrompt)
  /\ Len(qPrompt) = 9
  /\ avgPromptQuality(qDims) = 3932

\* C16: "fix code" scores context 20, clarity 85 (one vague word, "fix"),
\* specificity 4 and structure 30 (its floor), and a weighted prompt quality
\* below 20.
C16_FixCodeBottomDecile ==
  qPc = "scored" /\ qPrompt = <<"fix", " ", "code">> =>
    /\ qDims.context = 20
    /\ qDims.clarity = 100 - 15
    /\ qDims.specificity = 4
    /\ qDims.structure = 30
    /\ avgPromptQuality(qDims) < 20 * QualityUnit

\* C16, the case: analyzePromptQuality has scored "fix code".
C16_Witness ==
  /\ qPc = "scored"
  /\ qPrompt = <<"fix", " ", "code">>
  /\ qDims.meaningfulLength3 = 20

\* C17, as stated: structure is 100 exactly when the prompt has two line
\* breaks or more, a digit followed by ".", or a "-" or "*" at the start of a
\* line; otherwise it is 30.
C17_StructureBulletAtLineStart ==
  qPc = "scored" =>
    LET breaks == Cardinality({i \in 1..Len(qPrompt) : qPrompt[i] = "\n"})
        bullet == \E i \in 1..Len(qPrompt) :
                    /\ qPrompt[i] \in {"-", "*"}
                    /\ i = 1 \/ qPrompt[i - 1] = "\n"
    IN qDims.structure =
         IF breaks >= 2 \/ HasListMarker(qPrompt) \/ bullet THEN 100 ELSE 30

\* the atoms that are not alphanumeric
Punctuation == {".", ",", "-", "*", "{", "}", "[", "]", "FENCE"}

\* C18, as stated: every token analyzePromptQuality compares with its tables
\* is made of alphanumeric characters only.
C18_TokensAlphanumeric ==
  qPc = "scored" =>
    \A n \in 1..Len(Words(qPrompt)) :
      \A k \in 1..Len(Words(qPrompt)[n]) : Words(qPrompt)[n][k] \notin Punctuation

\* C19, as stated: context is 100 exactly when the prompt has a code fence,
\* an opening or closing brace or bracket, or a digit; otherwise it is 20.
C19_ContextAnyBracket ==
  qPc = "scored" =>
    qDims.context =
      IF \E i \in 1..Len(qPrompt) :
           qPrompt[i] \in {"FENCE", "{", "}", "[", "]"} \cup Digits
      THEN 100 ELSE 20

\* C20: clarity is max(100 - 15 * V, 0) for the number V of tokens that are a
\* vague word, each occurrence counted; it is never below 0.
C20_ClarityFormula ==
  qPc = "scored" =>
    LET V == Cardinality(TableTokens(qPrompt, vagueWords))
    IN /\ qDims.clarity = IF 15 * V >= 100 THEN 0 ELSE 100 - 15 * V
       /\ qDims.clarity >= 0

\* C20, the case: a prompt of eight vague words (capitalised "Fix"), whose
\* penalty of 120 is cut at the floor.
C20_Witness ==
  /\ qPc = "scored"
  /\ Cardinality(TableTokens(qPrompt, vagueWords)) = 8
  /\ qPrompt[1] = "Fix"
  /\ qDims.clarity = 0

\* C21: specificity is min((T*20 + M*2)/100, 1)*100 for the number M of tokens
\* that are not stopwords and the number T of tokens that are a technical
\* term; it is within [0,100] and is 100 from T*20 + M*2 = 100 on.
C21_SpecificityFormula ==
  qPc = "scored" =>
    LET M == Cardinality(TokenStarts(qPrompt))
               - Cardinality(TableTokens(qPrompt, STOPWORDS))
        T == Cardinality(TableTokens(qPrompt, techTerms))
    IN /\ qDims.specificity = IF T * 20 + M * 2 >= 100 THEN 100 ELSE T * 20 + M * 2
       /\ qDims.specificity \in 0..100

\* C21, the case: seven technical terms in a row, 154 before the cap, scored
\* 100.
C21_Witness ==
  /\ qPc = "scored"
  /\ Cardinality(TableTokens(qPrompt, techTerms)) = 7
  /\ Cardinality(TokenStarts(qPrompt)) = 7
  /\ qDims.specificity = 100

NewestFirst(ids) == \A i \in 1..(Len(ids) - 1) : ids[i] > ids[i + 1]

\* C26: after any sequence of analyses and history clears the history list
\* (of the current App and of the legacy App) holds at most 50 results, newest
\* first; a new result is put in front of the list (in the current App, the
\* list that the invocation of handleAnalyze holds) and what is beyond the
\* 50th place is dropped.
C26_HistoryBounded ==
  /\ [](/\ Len(history) <= 50
        /\ Len(storedHistory) <= 50
        /\ Len(legacyHistory) <= 50
        /\ NewestFirst([i \in 1..Len(history) |-> history[i].id])
        /\ NewestFirst([i \in 1..Len(legacyHistory) |-> legacyHistory[i].timestamp]))
  /\ [][/\ (history' # history /\ history' # <<>>) =>
            \E c \in 1..Len(calls) :
              LET held == calls[c].history
              IN /\ calls[c].pc \notin Terminal /\ calls'[c].pc \in Terminal
                 /\ history'[1] = calls'[c].result
                 /\ \A i \in 1..Len(held) : held[i].id < history'[1].id
                 /\ Len(history') = IF Len(held) >= 50 THEN 50 ELSE Len(held) + 1
                 /\ \A i \in 2..Len(history') : history'[i] = held[i - 1]
                 /\ storedHistory' = history'
        /\ (legacyHistory' # legacyHistory /\ legacyHistory' # <<>>) =>
            /\ legacyHistory'[1] = legacyResult'
            /\ \A i \in 1..Len(legacyHistory) :
                 legacyHistory[i].timestamp < legacyResult'.timestamp
            /\ Len(legacyHistory') =
                 IF Len(legacyHistory) >= 50 THEN 50 ELSE Len(legacyHistory) + 1
            /\ \A i \in 2..Len(legacyHistory') : legacyHistory'[i] = legacyHistory[i - 1]
       ]_vars

\* C26, the case: two analyses on top of a saved history of 50 entries in the
\* current App, and one in the legacy App: the lists hold 50 entries, and the
\* oldest ones are gone.
C26_Witness ==
  /\ Len(history) = 50
  /\ history[1].id = 2
  /\ history[2].id = 1
  /\ history[50].id = -48
  /\ storedHistory = history
  /\ Len(legacyHistory) = 50
  /\ legacyHistory[1].id = 1
  /\ legacyHistory[50].id = -49

\* C28: the legacy mapping gives a confidenceScore within [0,100]: the rounded
\* original score when the response has no optimization, and min(100, original
\* + expected improvement) when it has one; originalScore, expectedImprovement
\* and optimizedPrompt are defined exactly when an optimization is present.
C28_ConfidenceScore ==
  \A c \in 1..Len(legacyCalls) :
    legacyCalls[c].outcome = "returned" =>
      LET data == legacyCalls[c].data
          result == legacyCalls[c].result
          original == (data.accuracy_score + 5) \div 10
          improvement == (data.optimization.expected_score_improvement + 5) \div 10
      IN /\ result.confidenceScore \in 0..100
         /\ ~data.optimization.present =>
              /\ result.confidenceScore = original
              /\ result.defined = {}
         /\ data.optimization.present =>
              /\ result.confidenceScore =
                   IF original + improvement >= 100 THEN 100
                   ELSE original + improvement
              /\ result.defined =
                   {"originalScore", "expectedImprovement", "optimizedPrompt"}
              /\ result.originalScore = original
              /\ result.expectedImprovement = improvement

\* C28, the case: accuracy 0.854 with an expected improvement of 0.15 gives
\* 85 + 15, shown as 100, and the result is the one displayed.
C28_Witness ==
  /\ legacyCalls # <<>>
  /\ legacyCalls[1].outcome = "returned"
  /\ legacyCalls[1].data.accuracy_score = 854
  /\ legacyCalls[1].data.optimization.present
  /\ legacyCalls[1].data.optimization.expected_score_improvement = 150
  /\ legacyResult.confidenceScore = 100
  /\ legacyResult.originalScore = 85

\* C27: when an analysis ends with a result whose status is not "success",
\* the current result, the history, the persisted history and the telemetry
\* log stay as they were; only the analyzing flag changes (to false).
C27_NonSuccessDiscarded ==
  [][\A c \in 1..Len(calls) :
       (/\ calls[c].pc \notin Terminal
        /\ calls'[c].pc \in Terminal
        /\ calls'[c].result.status # "success") =>
         /\ isAnalyzing' = FALSE
         /\ UNCHANGED <<currentResult, history, storedHistory, logs, clock,
                        received, subscribers, inputPrompt, autoOptimize>>]_vars

\* C27, the case: a second analysis came back with status "error" after a
\* first one had succeeded; the first result is still the current one and the
\* only history entry, and the log has the heartbeat and one analysis.
C27_Witness ==
  /\ Len(calls) = 2
  /\ calls[2].pc = "fulfilled"
  /\ calls[2].result.status = "error"
  /\ calls[1].result.status = "success"
  /\ currentResult = calls[1].result
  /\ history = <<calls[1].result>>
  /\ storedHistory = history
  /\ clock = 2
  /\ ~isAnalyzing

\* a result is an entry of a history list
InHistory(result, list) == \E i \in 1..Len(list) : list[i] = result

\* C23, as stated: every analysis that completed with status success is in
\* the history and in the persisted history, also when it overlapped with
\* another analysis.
C23_OverlapKeepsBoth ==
  \A c \in 1..Len(calls) :
    calls[c].pc = "fulfilled" /\ calls[c].result.status = "success" =>
      /\ InHistory(calls[c].result, history)
      /\ InHistory(calls[c].result, storedHistory)

\* C24, as stated: while the demo tour is active, demoState.step is an index
\* of DEMO_STEPS.
C24_StepInRange ==
  demoState.isActive => demoState.step \in 0..5

\* C25: on auto-pilot, a demo started at step 0 and not closed goes from each
\* step to the next one only, ends at step 5 only, and does end (isActive
\* becomes false).
C25_AutoPilotRuns ==
  /\ [][/\ demoState.isActive /\ demoState'.isActive =>
             demoState'.step \in {demoState.step, demoState.step + 1}
        /\ ~demoState.isActive /\ demoState'.isActive => demoState'.step = 0
        /\ demoState.isActive /\ ~demoState'.isActive =>
             demoState.step = 5 /\ demoState'.step = 5]_vars
  /\ [](demoState.isActive => demoState.isAuto /\ demoState.step \in 0..5)
  /\ (demoState.isActive ~> ~demoState.isActive)

\* C25, the case: the auto-pilot demo is over; it made the analysis of step 2
\* and the remediation of step 5.
C25_Witness ==
  /\ ~demoState.isActive
  /\ demoState.isAuto
  /\ demoState.step = 5
  /\ demoPending = <<>>
  /\ Len(calls) = 2
  /\ calls[2].pc = "fulfilled"
  /\ calls[2].prompt = calls[1].result.optimization.optimized_prompt

\* the template of list with the given id (NoTemplate when there is none)
TemplateOf(list, id) ==
  IF \E i \in 1..Len(list) : list[i].id = id
  THEN list[CHOOSE i \in 1..Len(list) : list[i].id = id]
  ELSE NoTemplate

\* C29: the i-th version of every template carries versionNumber i; no step
\* changes or removes a version of a template that stays in the list; a commit
\* or a restore adds one version at the end, and a restore gives it the
\* restored version's content and description.
C29_VersionsAppendOnly ==
  /\ [](\A t \in 1..Len(templates) :
          /\ templates[t].versions # <<>>
          /\ \A i \in 1..Len(templates[t].versions) :
               templates[t].versions[i].versionNumber = i)
  /\ [](storedTemplates = templates)
  /\ [][\A t \in 1..Len(templates) :
         LET old == templates[t].versions
             new == TemplateOf(templates', templates[t].id).versions
             made == templateManager'.lastAction
         IN TemplateOf(templates', templates[t].id) # NoTemplate =>
              /\ Len(new) >= Len(old)
              /\ SubSeq(new, 1, Len(old)) = old
              /\ Len(new) > Len(old) =>
                   /\ Len(new) = Len(old) + 1
                   /\ made.kind \in {"commit", "restore"}
                   /\ made.kind = "restore" =>
                        /\ made.version < Len(new)
                        /\ new[Len(new)].content = old[made.version].content
                        /\ new[Len(new)].description = old[made.version].description
                   /\ made.kind = "commit" =>
                        /\ new[Len(new)].content = templateManager.editedContent
                        /\ new[Len(new)].description =
                             templateManager.editedDescription]_vars

\* C29, the case: a template whose second version was committed with another
\* content and whose third version is a restore of the first.
C29_Witness ==
  \E t \in 1..Len(templates) :
    /\ Len(templates[t].versions) = 3
    /\ templates[t].versions[2].content # templates[t].versions[1].content
    /\ templates[t].versions[3].content = templates[t].versions[1].content
    /\ templates[t].versions[3].versionNumber = 3
    /\ templateManager.lastAction = [kind |-> "restore", version |-> 1]
    /\ templateManager.selectedTemplate = templates[t]

\* cb is subscribed
Subscribed(cb) == \E i \in 1..Len(subscribers) : subscribers[i] = cb

\* C30: the buffer holds the newest logs, newest first, and never more than
\* 100 of them; every log emitted is given once to each callback that is
\* subscribed at that moment and to no other; the unsubscribe function takes
\* its callback out of the subscribers, so that it is given no further log.
C30_BufferAndDelivery ==
  /\ [](/\ Len(logs) <= 100
        /\ Len(logs) = IF clock >= 100 THEN 100 ELSE clock
        /\ \A i \in 1..Len(logs) : logs[i].timestamp = clock - i + 1)
  /\ [][/\ \A cb \in DOMAIN received :
             IF Subscribed(cb)
             THEN /\ received'[cb].count = received[cb].count + (clock' - clock)
                  /\ clock' > clock => received'[cb].last = clock'
             ELSE received'[cb] = received[cb]
        /\ Len(subscribers') < Len(subscribers) =>
             /\ clock' = clock
             /\ \E cb \in DOMAIN received : Subscribed(cb) /\ ~Subscribed(cb)'
        /\ clock' > clock => subscribers' = subscribers]_vars

\* C30, the case: 101 logs were emitted, the buffer holds the last 100, and
\* the Metrics tab's callback, which got 60 of the first 100, was
\* unsubscribed before the last log and did not get it.
C30_Witness ==
  /\ clock = 101
  /\ Len(logs) = 100
  /\ logs[1].timestamp = 101
  /\ logs[100].timestamp = 2
  /\ ~Subscribed("metricsTab")
  /\ received["metricsTab"] = [count |-> 60, last |-> 100]

====
